---- MODULE Spec2Model ----
(***************************************************************************)
(* Model of the RocksDB storage adapter of reth                            *)
(* (crates/storage/db/src/implementation/reth_rocksdb): the composite-key  *)
(* formatter for dupsort tables, the cursor over a raw byte-ordered        *)
(* iterator, the write path that keeps duplicate values sorted through a   *)
(* tie-breaker suffix, and the walkers built on the cursor.                *)
(*                                                                         *)
(* One table and one cursor of one transaction are modelled.  Physical     *)
(* keys and stored values are byte strings (sequences of naturals) that    *)
(* are compared byte-lexicographically, as the underlying store does.      *)
(***************************************************************************)
EXTENDS Integers, Sequences, FiniteSets, TLC

(***************************************************************************)
(* Bounds of the model                                                     *)
(***************************************************************************)
\* width in bytes of an encoded primary key (20, 8, 28 or 32 in dups.rs)
KeyWidth == 2
\* subkeys are 1..NumSubKeys, encoded in one byte
NumSubKeys == 2
\* value payloads are 1..NumValues, encoded in one byte
NumValues == 3
\* new pairs are written only while the table holds fewer physical entries
MaxEntries == 3
\* writes are issued only while every stored tie-breaker is below TieCap
TieCap == 4
\* calls that delete entries are issued only while fewer of them have been made
MaxDeletes == 1
\* the payloads 1..NumFewValues are used where two values of a subkey suffice
NumFewValues == 2

\* u8::max_value()
MaxByte == 255
\* the tie-breaker of max_extend_composite_key, above every stored tie
MaxTie == 255

\* Option::None; also the position of an iterator that is not valid
None == <<>>

(***************************************************************************)
(* Key/value codec                                                         *)
(***************************************************************************)
\* Encode for a primary key: fixed width, big endian
Encode(k) == [i \in 1..KeyWidth |-> (k \div ((MaxByte + 1) ^ (KeyWidth - i))) % (MaxByte + 1)]

RECURSIVE BigEndian(_)
BigEndian(b) == IF b = <<>> THEN 0 ELSE BigEndian(SubSeq(b, 1, Len(b) - 1)) * (MaxByte + 1) + b[Len(b)]

\* Decode for a primary key
Decode(b) == BigEndian(b)

\* Encode for a subkey
EncodeSubKey(sk) == <<sk>>

\* Compress for a value: the subkey it carries, then its payload
Compress(v) == EncodeSubKey(v.key) \o <<v.value>>

\* Decompress for a value
Decompress(b) == [key |-> b[1], value |-> b[2]]

\* the primary keys used: the greatest one-byte key, the least two-byte key,
\* and the greatest key of the width
Keys == {MaxByte, MaxByte + 1, (MaxByte + 1) ^ KeyWidth - 1}
SubKeys == 1..NumSubKeys
Values == [key : SubKeys, value : 1..NumValues]
FewValues == [key : SubKeys, value : 1..NumFewValues]
\* subkeys that are looked up: the written subkeys and their neighbours
SeekSubKeys == 0..(NumSubKeys + 1)
\* keys that are looked up: the written keys and their neighbours
SeekKeys ==
    {k \in UNION {{x - 1, x, x + 1} : x \in Keys} : k >= 0 /\ k < (MaxByte + 1) ^ KeyWidth}

(***************************************************************************)
(* Byte order of the underlying store                                      *)
(***************************************************************************)
RECURSIVE BytesLess(_, _)
BytesLess(a, b) ==
    IF a = <<>> THEN b # <<>>
    ELSE IF b = <<>> THEN FALSE
    ELSE IF a[1] # b[1] THEN a[1] < b[1]
    ELSE BytesLess(Tail(a), Tail(b))

BytesLeq(a, b) == a = b \/ BytesLess(a, b)

MinKey(S) == CHOOSE k \in S : \A j \in S : BytesLeq(k, j)
MaxKey(S) == CHOOSE k \in S : \A j \in S : BytesLeq(j, k)

(***************************************************************************)
(* Raw iterator of the underlying store over a table t (a function from    *)
(* physical keys to stored values).  A position is a physical key or None. *)
(***************************************************************************)
iter_seek(t, key) ==
    LET S == {k \in DOMAIN t : BytesLeq(key, k)} IN IF S = {} THEN None ELSE MinKey(S)

iter_seek_for_prev(t, key) ==
    LET S == {k \in DOMAIN t : BytesLeq(k, key)} IN IF S = {} THEN None ELSE MaxKey(S)

iter_seek_to_first(t) == IF DOMAIN t = {} THEN None ELSE MinKey(DOMAIN t)

iter_seek_to_last(t) == IF DOMAIN t = {} THEN None ELSE MaxKey(DOMAIN t)

\* next() and prev() do nothing on an iterator that is not valid
iter_next(t, it) ==
    IF it = None THEN None
    ELSE LET S == {k \in DOMAIN t : BytesLess(it, k)} IN IF S = {} THEN None ELSE MinKey(S)

iter_prev(t, it) ==
    IF it = None THEN None
    ELSE LET S == {k \in DOMAIN t : BytesLess(k, it)} IN IF S = {} THEN None ELSE MaxKey(S)

\* item(): the pair under the iterator
iter_item(t, it) == IF it \in DOMAIN t THEN <<it, t[it]>> ELSE None

iter_valid(t, it) == it \in DOMAIN t

\* put_cf and delete_cf of the native transaction
put_cf(t, key, val) == [k \in DOMAIN t \cup {key} |-> IF k = key THEN val ELSE t[k]]

delete_cf(t, key) == [k \in DOMAIN t \ {key} |-> t[k]]

(***************************************************************************)
(* Composite key formatter                                                 *)
(***************************************************************************)
\* DupKeyFormat::format_composite_key
format_composite_key(k, sk) == Encode(k) \o EncodeSubKey(sk)

\* KeyFormat::format_key; ds is T::TABLE.is_dupsort()
format_key(ds, k, v) == IF ds THEN format_composite_key(k, v.key) ELSE Encode(k)

\* KeyFormat::unformat_key: the primary key from the fixed-width prefix
unformat_key(raw) == Decode(SubSeq(raw, 1, KeyWidth))

\* the width in bytes of the encoded primary key of each dupsort table:
\* Address, BlockNumber, BlockNumberAddress, B256, B256
KeyLen ==
    [PlainStorageState |-> 20, AccountChangeSets |-> 8, StorageChangeSets |-> 28,
     HashedStorages |-> 32, StoragesTrie |-> 32]

\* where unformat_key of each dupsort table splits the raw key
SplitAt ==
    [PlainStorageState |-> 20, AccountChangeSets |-> 8, StorageChangeSets |-> 28,
     HashedStorages |-> 32, StoragesTrie |-> 32]

\* Encode for a primary key of n bytes: big endian
RECURSIVE to_be_bytes(_, _)
to_be_bytes(k, n) ==
    IF n = 0 THEN <<>> ELSE to_be_bytes(k \div (MaxByte + 1), n - 1) \o <<k % (MaxByte + 1)>>

\* KeyFormat::format_key of table T
KeyFormat_format_key(T, k, v) == to_be_bytes(k, KeyLen[T]) \o EncodeSubKey(v.key)

\* KeyFormat::unformat_key of table T, were it to split one byte short
KeyFormat_unformat_key_short(T, raw) == Decode(SubSeq(raw, 1, SplitAt[T] - 1))

\* KeyFormat::unformat_key of table T
KeyFormat_unformat_key(T, raw) == Decode(SubSeq(raw, 1, SplitAt[T]))

zero_extend_composite_key(ds, ck) == IF ds THEN ck \o <<0>> ELSE ck

max_extend_composite_key(ds, ck) == IF ds THEN ck \o <<MaxTie>> ELSE ck

up_extend_composite_key(ek) == [ek EXCEPT ![Len(ek)] = @ + 1]

unformat_extended_composite_key(ds, ek) == IF ds THEN SubSeq(ek, 1, Len(ek) - 1) ELSE ek

\* decode_item
decode_item(el) == IF el = None THEN None ELSE <<unformat_key(el[1]), Decompress(el[2])>>

(***************************************************************************)
(* Cursor.  A cursor c is a record: tbl (the table as the transaction sees *)
(* it), iter (the raw iterator's position), state (CursorIt), dup_mode,    *)
(* dupsort (T::TABLE.is_dupsort()) and res (the result of the last call:   *)
(* err is "" for Ok, val is the returned Option).                          *)
(***************************************************************************)
Ok(c, v) == [c EXCEPT !.res = [err |-> "", val |-> v]]

Err(c, e) == [c EXCEPT !.res = [err |-> e, val |-> None]]

\* Cursor::new
NewCursor(t, ds, dm) ==
    [tbl |-> t, iter |-> None, state |-> "Start", dup_mode |-> dm, dupsort |-> ds,
     res |-> [err |-> "", val |-> None]]

first(c) ==
    LET it == iter_seek_to_first(c.tbl)
        el == iter_item(c.tbl, it)
    IN  IF el = None
        THEN Ok([c EXCEPT !.iter = it, !.state = "End"], None)
        ELSE Ok([c EXCEPT !.iter = it, !.state = "Iterating"], decode_item(el))

last(c) ==
    LET it == iter_seek_to_last(c.tbl)
        el == iter_item(c.tbl, it)
    IN  IF el = None
        THEN Ok([c EXCEPT !.iter = it, !.state = "End"], None)
        ELSE Ok([c EXCEPT !.iter = it, !.state = "Iterating"], decode_item(el))

\* seek, were it to look for the greatest key at or below the sought one
seek_backward(c, key) ==
    LET it == iter_seek_for_prev(c.tbl, Encode(key))
        el == iter_item(c.tbl, it)
    IN  IF el = None
        THEN Ok([c EXCEPT !.iter = it, !.state = "End"], None)
        ELSE Ok([c EXCEPT !.iter = it, !.state = "Iterating"], decode_item(el))

seek(c, key) ==
    LET it == iter_seek(c.tbl, Encode(key))
        el == iter_item(c.tbl, it)
    IN  IF el = None
        THEN Ok([c EXCEPT !.iter = it, !.state = "End"], None)
        ELSE Ok([c EXCEPT !.iter = it, !.state = "Iterating"], decode_item(el))

\* seek_exact, were it to return whatever seek found
seek_exact_unfiltered(c, key) == seek(c, key)

seek_exact(c, key) ==
    LET r == seek(c, key)
    IN  IF r.res.val # None /\ r.res.val[1] = key THEN r ELSE Ok(r, None)

current(c) ==
    IF c.state = "Iterating" THEN Ok(c, decode_item(iter_item(c.tbl, c.iter))) ELSE Ok(c, None)

\* next, were it to leave the iterator behind the last entry at the end of the table
next_off_end(c) ==
    CASE c.state = "Start" -> first(c)
      [] c.state = "End" ->
            IF iter_item(c.tbl, c.iter) = None THEN Ok(c, None)
            ELSE LET it == iter_next(c.tbl, c.iter)
                     el == decode_item(iter_item(c.tbl, it))
                 IN  IF el = None
                     THEN Ok([c EXCEPT !.iter = it], None)
                     ELSE Ok([c EXCEPT !.iter = it, !.state = "Iterating"], el)
      [] c.state = "Iterating" ->
            LET it == iter_next(c.tbl, c.iter)
                el == iter_item(c.tbl, it)
            IN  IF el = None
                THEN Ok([c EXCEPT !.iter = it, !.state = "Iterating"], None)
                ELSE Ok([c EXCEPT !.iter = it, !.state = "Iterating"], decode_item(el))

next(c) ==
    CASE c.state = "Start" -> first(c)
      [] c.state = "End" ->
            IF iter_item(c.tbl, c.iter) = None THEN Ok(c, None)
            ELSE LET it == iter_next(c.tbl, c.iter)
                     el == decode_item(iter_item(c.tbl, it))
                 IN  IF el = None
                     THEN Ok([c EXCEPT !.iter = it], None)
                     ELSE Ok([c EXCEPT !.iter = it, !.state = "Iterating"], el)
      [] c.state = "Iterating" ->
            LET it == iter_next(c.tbl, c.iter)
                el == iter_item(c.tbl, it)
            IN  IF el = None
                THEN Ok([c EXCEPT !.iter = iter_seek_to_last(c.tbl), !.state = "Iterating"], None)
                ELSE Ok([c EXCEPT !.iter = it, !.state = "Iterating"], decode_item(el))

prev(c) ==
    CASE c.state = "Start" -> last(c)
      [] c.state = "End" ->
            IF iter_item(c.tbl, c.iter) = None
            THEN current([c EXCEPT !.iter = iter_seek_to_last(c.tbl), !.state = "Iterating"])
            ELSE LET r == current([c EXCEPT !.iter = iter_prev(c.tbl, c.iter),
                                            !.state = "Iterating"])
                 IN  IF r.res.val = None THEN Ok([r EXCEPT !.state = "Start"], None) ELSE r
      [] c.state = "Iterating" ->
            LET it == iter_prev(c.tbl, c.iter)
                el == iter_item(c.tbl, it)
            IN  IF el = None
                THEN Ok([c EXCEPT !.iter = iter_seek_to_first(c.tbl), !.state = "Iterating"], None)
                ELSE Ok([c EXCEPT !.iter = it, !.state = "Iterating"], decode_item(el))

\* next_dup, were it to stay on the entry of the other primary key
next_dup_advanced(c) ==
    CASE c.state = "Start" -> first(c)
      [] c.state = "End" -> Ok(c, None)
      [] c.state = "Iterating" ->
            IF iter_item(c.tbl, c.iter) = None THEN next(c)
            ELSE LET prev_primary == unformat_key(c.iter)
                     r == next(c)
                 IN  IF r.res.val = None THEN r
                     ELSE IF prev_primary = r.res.val[1] THEN r
                     ELSE Ok(r, None)

\* next_dup, were it to return the next entry whatever its primary key
next_dup_unscoped(c) ==
    CASE c.state = "Start" -> first(c)
      [] c.state = "End" -> Ok(c, None)
      [] c.state = "Iterating" -> next(c)

next_dup(c) ==
    CASE c.state = "Start" -> first(c)
      [] c.state = "End" -> Ok(c, None)
      [] c.state = "Iterating" ->
            IF iter_item(c.tbl, c.iter) = None THEN next(c)
            ELSE LET prev_primary == unformat_key(c.iter)
                     r == next(c)
                 IN  IF r.res.val = None THEN r
                     ELSE IF prev_primary = r.res.val[1] THEN r
                     ELSE Ok(prev(r), None)

\* next_dup_val: the value of the pair next_dup returns, as <<value>>
next_dup_val(c) ==
    LET r == next_dup(c) IN IF r.res.val = None THEN r ELSE Ok(r, <<r.res.val[2]>>)

\* the loop of next_no_dup over the encoded primary key b: from its last byte
\* down to its second byte (position i, counted from 1), a byte below MaxByte
\* is incremented and ends the loop, a byte at MaxByte becomes 0; the first
\* byte is never visited
RECURSIVE plus_one(_, _)
plus_one(b, i) ==
    IF i < 2 THEN b
    ELSE IF b[i] # MaxByte THEN [b EXCEPT ![i] = @ + 1]
    ELSE plus_one([b EXCEPT ![i] = 0], i - 1)

\* next_no_dup, were it to leave the cursor on the last duplicate of the key
\* when no greater key is stored
next_no_dup_to_last(c) ==
    CASE c.state = "Start" -> first(c)
      [] c.state = "End" -> Ok(c, None)
      [] c.state = "Iterating" ->
            IF iter_item(c.tbl, c.iter) = None THEN next(c)
            ELSE LET encoded == Encode(unformat_key(c.iter))
                     it == iter_seek(c.tbl, plus_one(encoded, Len(encoded)))
                     el == iter_item(c.tbl, it)
                 IN  IF el = None
                     THEN Ok([c EXCEPT !.iter = iter_seek_to_last(c.tbl),
                                       !.state = "Iterating"], None)
                     ELSE Ok([c EXCEPT !.iter = it, !.state = "Iterating"], decode_item(el))

next_no_dup(c) ==
    CASE c.state = "Start" -> first(c)
      [] c.state = "End" -> Ok(c, None)
      [] c.state = "Iterating" ->
            IF iter_item(c.tbl, c.iter) = None THEN next(c)
            ELSE LET prev_item_key == c.iter
                     encoded == Encode(unformat_key(prev_item_key))
                     prev_primary_plus_one == plus_one(encoded, Len(encoded))
                     it == iter_seek(c.tbl, prev_primary_plus_one)
                     el == iter_item(c.tbl, it)
                 IN  IF el = None
                     THEN Ok([c EXCEPT !.iter = iter_seek(c.tbl, prev_item_key),
                                       !.state = "Iterating"], None)
                     ELSE Ok([c EXCEPT !.iter = it, !.state = "Iterating"], decode_item(el))

\* decode_value: Some(value) as <<value>>
decode_value(v) == <<Decompress(v)>>

\* seek_by_key_subkey, were it to return the value found whatever its key
seek_by_key_subkey_unscoped(c, key, subkey) ==
    LET it == iter_seek(c.tbl, zero_extend_composite_key(c.dupsort,
                                   format_composite_key(key, subkey)))
        el == iter_item(c.tbl, it)
    IN  IF el = None
        THEN Ok([c EXCEPT !.iter = it, !.state = "End"], None)
        ELSE Ok([c EXCEPT !.iter = it, !.state = "Iterating"], decode_value(el[2]))

seek_by_key_subkey(c, key, subkey) ==
    LET it == iter_seek(c.tbl, zero_extend_composite_key(c.dupsort,
                                   format_composite_key(key, subkey)))
        el == iter_item(c.tbl, it)
    IN  IF el = None
        THEN Ok([c EXCEPT !.iter = it, !.state = "End"], None)
        ELSE IF unformat_key(el[1]) = key
        THEN Ok([c EXCEPT !.iter = it, !.state = "Iterating"], decode_value(el[2]))
        ELSE Ok([c EXCEPT !.iter = it, !.state = "Iterating"], None)

(***************************************************************************)
(* Transaction                                                             *)
(***************************************************************************)
\* Tx::put_raw
\* put_raw, were it to keep the value of a key already stored
put_raw_new_only(t, key, val) == IF key \in DOMAIN t THEN t ELSE put_cf(t, key, val)

put_raw(t, key, val) == put_cf(t, key, val)

\* Tx::get, were it to look up the encoded primary key as the raw key on
\* every table
tx_get_plain(t, ds, key) ==
    IF Encode(key) \in DOMAIN t THEN <<Decompress(t[Encode(key)])>> ELSE None

\* Tx::get: None, or <<value>> for Some(value)
tx_get(t, ds, key) ==
    IF ds
    THEN LET el == iter_item(t, iter_seek(t, Encode(key)))
         IN  IF el = None THEN None
             ELSE IF key = unformat_key(el[1]) THEN <<Decompress(el[2])>> ELSE None
    ELSE IF Encode(key) \in DOMAIN t THEN <<Decompress(t[Encode(key)])>> ELSE None

(***************************************************************************)
(* Cursor: write path                                                      *)
(***************************************************************************)
\* the first loop of upsert, were it to look at the last tie only
upsert_find_last(c, it, ck, val) ==
    LET el == iter_item(c.tbl, it)
    IN  IF el # None /\ unformat_extended_composite_key(c.dupsort, el[1]) = ck /\ el[2] = val
        THEN it ELSE None

\* first loop of upsert: from position it, step back over the ties of the
\* composite key ck; the position of the tie that stores val, or None
RECURSIVE upsert_find(_, _, _, _)
upsert_find(c, it, ck, val) ==
    LET el == iter_item(c.tbl, it)
    IN  IF el # None /\ unformat_extended_composite_key(c.dupsort, el[1]) = ck
        THEN IF el[2] = val THEN it ELSE upsert_find(c, iter_prev(c.tbl, it), ck, val)
        ELSE None

\* the second loop of upsert, were it to store val behind the last tie whatever
\* the values of the ties
upsert_shift_behind(c, ck, val) ==
    LET el == iter_item(c.tbl, c.iter)
        inserted_key == up_extend_composite_key(el[1])
        t == put_raw(c.tbl, inserted_key, val)
    IN  [c EXCEPT !.tbl = t, !.iter = iter_seek(t, inserted_key)]

\* the second loop of upsert, were it to store val over the last tie
upsert_shift_overwrite(c, ck, val) ==
    LET el == iter_item(c.tbl, c.iter)
        t == put_raw(c.tbl, el[1], val)
    IN  [c EXCEPT !.tbl = t, !.iter = iter_seek(t, el[1])]

\* second loop of upsert: shift the ties greater than val up by one tie-breaker
\* and store val behind the first smaller tie, or at the zero tie-breaker
RECURSIVE upsert_shift(_, _, _)
upsert_shift(c, ck, val) ==
    LET el == iter_item(c.tbl, c.iter)
    IN  IF el # None /\ unformat_extended_composite_key(c.dupsort, el[1]) = ck
        THEN IF BytesLess(el[2], val)
             THEN LET inserted_key == up_extend_composite_key(el[1])
                      t == put_raw(c.tbl, inserted_key, val)
                  IN  [c EXCEPT !.tbl = t, !.iter = iter_seek(t, inserted_key)]
             ELSE LET t == put_raw(c.tbl, up_extend_composite_key(el[1]), el[2])
                  IN  upsert_shift([c EXCEPT !.tbl = t, !.iter = iter_prev(t, c.iter)], ck, val)
        ELSE LET inserted_key == zero_extend_composite_key(c.dupsort, ck)
                 t == put_raw(c.tbl, inserted_key, val)
             IN  [c EXCEPT !.tbl = t, !.iter = iter_seek(t, inserted_key)]

upsert(c, key, value) ==
    LET composite_key == format_key(c.dupsort, key, value)
        max_key == max_extend_composite_key(c.dupsort, composite_key)
        zero_ext_key == zero_extend_composite_key(c.dupsort, composite_key)
        it == iter_seek_for_prev(c.tbl, max_key)
        el == iter_item(c.tbl, it)
        c1 == [c EXCEPT !.iter = it, !.state = "Iterating"]
        put_zero == LET t == put_raw(c.tbl, zero_ext_key, Compress(value))
                    IN  [c1 EXCEPT !.tbl = t, !.iter = iter_seek(t, zero_ext_key)]
    IN  IF el = None THEN Ok(put_zero, None)
        ELSE IF ~c.dupsort
        THEN LET t == put_raw(c.tbl, composite_key, Compress(value))
             IN  Ok([c1 EXCEPT !.tbl = t, !.iter = iter_seek(t, composite_key)], None)
        ELSE IF unformat_extended_composite_key(c.dupsort, el[1]) # composite_key
        THEN Ok(put_zero, None)
        ELSE LET found == upsert_find(c1, it, composite_key, Compress(value))
             IN  IF found # None
                 THEN Ok([c1 EXCEPT !.iter = found], None)
                 ELSE Ok(upsert_shift(c1, composite_key, Compress(value)), None)

\* insert, were it to write without asking whether the key is present
insert_unchecked(c, key, value) == upsert(c, key, value)

insert(c, key, value) ==
    IF tx_get(c.tbl, c.dupsort, key) # None
    THEN LET it == iter_seek(c.tbl, format_key(c.dupsort, key, value))
             lst == iter_seek_to_last(c.tbl)
         IN  IF iter_item(c.tbl, it) = None
             THEN Err([c EXCEPT !.iter = lst,
                                !.state = IF iter_item(c.tbl, lst) # None
                                          THEN "Iterating" ELSE "End"],
                      "AlreadyExists")
             ELSE Err([c EXCEPT !.iter = it, !.state = "Iterating"], "AlreadyExists")
    ELSE upsert(c, key, value)

\* append, were it to refuse a key equal to the last key as well
append_strict(c, key, value) ==
    LET l == last(c)
    IN  IF l.res.val = None THEN upsert(l, key, value)
        ELSE IF l.res.val[1] >= key THEN Err(l, "KeyMismatch")
        ELSE upsert(l, key, value)

append(c, key, value) ==
    LET l == last(c)
    IN  IF l.res.val = None THEN upsert(l, key, value)
        ELSE IF l.res.val[1] > key THEN Err(l, "KeyMismatch")
        ELSE upsert(l, key, value)

\* delete_current in state Iterating
\* the Iterating arm of delete_current, were it to leave the iterator on the
\* entry before the deleted one
delete_current_back(c, fails) ==
    IF ~iter_valid(c.tbl, c.iter) THEN Ok(c, None)
    ELSE LET t == delete_cf(c.tbl, c.iter)
             it == iter_seek_for_prev(t, c.iter)
         IN  Ok([c EXCEPT !.tbl = t, !.iter = it,
                          !.state = IF iter_valid(t, it) THEN "Iterating" ELSE "End"], None)

\* the Iterating arm of delete_current; fails: the store reports a failure of
\* delete_cf, whose result the arm drops (let _ =)
delete_current_at(c, fails) ==
    IF ~iter_valid(c.tbl, c.iter) THEN Ok(c, None)
    ELSE LET key == c.iter
             t == IF fails THEN c.tbl ELSE delete_cf(c.tbl, key)
             it == iter_seek(t, key)
             el == iter_item(t, it)
             c1 == [c EXCEPT !.tbl = t, !.iter = it]
         IN  IF el = None THEN Ok([c1 EXCEPT !.state = "End"], None)
             ELSE IF c.dup_mode /\ unformat_key(el[1]) # unformat_key(key)
             THEN Ok([c1 EXCEPT !.state = "End"], None)
             ELSE Ok([c1 EXCEPT !.state = "Iterating"], None)

\* delete_current, were it to do nothing on a cursor that was never positioned
delete_current_silent(c) ==
    IF c.state = "Iterating" THEN delete_current_at(c, FALSE) ELSE Ok(c, None)

delete_current(c) ==
    CASE c.state = "Start" -> Err(c, "Deleting from uninitialized cursor")
      [] c.state = "End" -> Ok(c, None)
      [] c.state = "Iterating" -> delete_current_at(c, FALSE)

\* the loop of delete_current_duplicates, were it to collect the first key only
to_delete_first(t, it, current_primary) ==
    IF iter_valid(t, it) /\ unformat_key(it) = current_primary THEN {it} ELSE {}

\* the loop of delete_current_duplicates: the keys from position it on whose
\* primary key is current_primary
RECURSIVE to_delete(_, _, _)
to_delete(t, it, current_primary) ==
    IF iter_valid(t, it) /\ unformat_key(it) = current_primary
    THEN {it} \cup to_delete(t, iter_next(t, it), current_primary)
    ELSE {}

delete_current_duplicates(c) ==
    CASE c.state = "Start" -> Err(c, "Deleting from uninitialized cursor")
      [] c.state = "End" -> Ok(c, None)
      [] c.state = "Iterating" ->
            IF ~iter_valid(c.tbl, c.iter) THEN Err(c, "panic")
            ELSE LET current_primary == unformat_key(c.iter)
                     from == iter_seek(c.tbl, Encode(current_primary))
                     gone == to_delete(c.tbl, from, current_primary)
                     t == [k \in DOMAIN c.tbl \ gone |-> c.tbl[k]]
                     it == iter_seek(t, Encode(current_primary))
                 IN  Ok([c EXCEPT !.tbl = t, !.iter = it,
                                  !.state = IF iter_valid(t, it) THEN "Iterating" ELSE "End"],
                        None)

append_dup(c, key, value) ==
    LET composite_key_to_insert == format_key(c.dupsort, key, value)
        it == iter_seek(c.tbl, zero_extend_composite_key(c.dupsort, composite_key_to_insert))
        el == iter_item(c.tbl, it)
        c1 == [c EXCEPT !.iter = it]
    IN  IF el = None THEN upsert(c1, key, value)
        ELSE IF unformat_key(el[1]) # key THEN upsert(c1, key, value)
        ELSE IF BytesLess(unformat_extended_composite_key(c.dupsort, el[1]),
                          composite_key_to_insert)
        THEN upsert(c1, key, value)
        ELSE IF BytesLess(composite_key_to_insert,
                          unformat_extended_composite_key(c.dupsort, el[1]))
        THEN Err(c1, "KeyMismatch")
        ELSE LET it2 == iter_seek_for_prev(c.tbl,
                            max_extend_composite_key(c.dupsort, composite_key_to_insert))
                 el2 == iter_item(c.tbl, it2)
                 c2 == [c EXCEPT !.iter = it2]
                 value_to_insert == Compress(value)
             IN  IF el2 = None THEN upsert(c2, key, value)
                 ELSE IF BytesLess(value_to_insert, el2[2]) THEN Err(c2, "KeyMismatch")
                 ELSE IF el2[2] = value_to_insert THEN Ok(c2, None)
                 ELSE LET inserted_ext_key == up_extend_composite_key(el2[1])
                          t == put_raw(c.tbl, inserted_ext_key, value_to_insert)
                      IN  Ok([c2 EXCEPT !.tbl = t, !.iter = iter_seek(t, inserted_ext_key),
                                        !.state = "Iterating"], None)

\* Tx::delete, were it to delete the first entry of the key and subkey
\* without comparing the value
tx_delete_first(t, ds, key, value) ==
    LET composite_key == IF ds THEN format_composite_key(key, value[1].key) ELSE Encode(key)
        el == iter_item(t, iter_seek(t, composite_key))
    IN  IF el # None /\ unformat_extended_composite_key(ds, el[1]) = composite_key
        THEN delete_cf(t, el[1]) ELSE t

\* Tx::delete: the table without the entry deleted, unchanged when nothing
\* matches; value is None or <<v>>; a dupsort delete without a value panics
tx_delete(t, ds, key, value) ==
    IF ~ds
    THEN LET key_to_seek == Encode(key)
             el == iter_item(t, iter_seek(t, key_to_seek))
         IN  IF el # None /\ el[1] = key_to_seek THEN delete_cf(t, el[1]) ELSE t
    ELSE LET composite_key == format_composite_key(key, value[1].key)
             RECURSIVE find(_)
             find(it) ==
                 LET el == iter_item(t, it)
                 IN  IF el # None /\ unformat_extended_composite_key(ds, el[1]) = composite_key
                     THEN IF el[2] = Compress(value[1]) THEN delete_cf(t, el[1])
                          ELSE find(iter_next(t, it))
                     ELSE t
         IN  find(iter_seek(t, composite_key))

\* Tx::abort, were the dropped transaction to write its pending entries
abort_flushed(db, t) == t

\* Tx::abort: the transaction is dropped, its pending writes are rolled back;
\* db is the table the database holds, t the table inside the transaction;
\* the result is the table a transaction opened afterwards starts from
abort(db, t) == db

\* Tx::commit: the native transaction is taken out and committed
commit(db, t) == t

\* Tx::put: an upsert through a new write cursor, which is then dropped
tx_put(t, ds, dm, key, value) == upsert(NewCursor(t, ds, dm), key, value)

(***************************************************************************)
(* Walker (forward): holds the pair fetched when it was built              *)
(***************************************************************************)
\* Cursor::walk
walk(c, start_key) == IF start_key = None THEN first(c) ELSE seek(c, start_key[1])

\* Walker::next: the held pair if there is one, else the cursor's next()
walker_next(c, start) == IF start # None THEN Ok(c, start) ELSE next(c)

\* walk_back, were it to start at the last entry whatever the key
walk_back_from_last(c, start_key) == last(c)

\* Cursor::walk_back: the cursor after the first fetch, its result the held pair
walk_back(c, start_key) == IF start_key = None THEN last(c) ELSE seek(c, start_key[1])

\* ReverseWalker::next: the held pair if there is one, else the cursor's prev()
reverse_walker_next(c, start) == IF start # None THEN Ok(c, start) ELSE prev(c)

\* Walker::delete_current: drops the held pair, then the cursor's delete_current()
walker_delete_current(c) == delete_current(c)

(***************************************************************************)
(* RangeWalker and DupWalker, drained: the pairs they yield up to the first *)
(* empty answer, as collect() gathers them                                  *)
(***************************************************************************)
\* a bound of a range of primary keys: Bound::Unbounded, Included(key), Excluded(key)
Unbounded == [kind |-> "Unbounded", key |-> 0]

Included(k) == [kind |-> "Included", key |-> k]

Excluded(k) == [kind |-> "Excluded", key |-> k]

\* Cursor::walk_range: the cursor after the first fetch, its result the held pair
walk_range(c, start_bound) ==
    LET start_key == IF start_bound.kind = "Unbounded" THEN None ELSE <<start_bound.key>>
    IN  IF start_key = None THEN first(c) ELSE seek(c, start_key[1])

\* the end bound admits primary key k
within_end(end_key, k) ==
    CASE end_key.kind = "Included" -> k <= end_key.key
      [] end_key.kind = "Excluded" -> k < end_key.key
      [] end_key.kind = "Unbounded" -> TRUE

\* RangeWalker::next until it yields nothing: the held pair or the cursor's
\* next(), as long as the pair's key is within the end bound
RECURSIVE range_walker_collect(_, _, _)
range_walker_collect(c, start, end_key) ==
    LET r == walker_next(c, start)
    IN  IF r.res.val = None THEN Ok(r, <<>>)
        ELSE IF ~within_end(end_key, r.res.val[1]) THEN Ok(r, <<>>)
        ELSE LET rest == range_walker_collect(r, None, end_key)
             IN  Ok(rest, <<r.res.val>> \o rest.res.val)

\* walk_dup, were it to start at the first entry of the key whatever the subkey
walk_dup_from_key(c, key, subkey) ==
    IF key = None THEN first(c)
    ELSE LET r == seek_exact(c, key[1])
         IN  IF r.res.val # None THEN r
             ELSE IF iter_valid(r.tbl, r.iter)
             THEN Err([r EXCEPT !.state = "End"], "MissingStart")
             ELSE Ok([r EXCEPT !.state = "End"], None)

\* walk_dup, were a missing start never an error
walk_dup_quiet(c, key, subkey) ==
    LET r == walk_dup_from_key(c, key, subkey) IN Ok(r, r.res.val)

\* Cursor::walk_dup: the cursor after the first fetch, its result start_el;
\* key and subkey are None or <<x>>; (None, Some(subkey)) panics
walk_dup(c, key, subkey) ==
    CASE key = None /\ subkey = None -> first(c)
      [] key = None /\ subkey # None -> Err(c, "panic")
      [] key # None /\ subkey = None ->
            LET r == seek_exact(c, key[1])
            IN  IF r.res.val # None THEN r
                ELSE IF iter_valid(r.tbl, r.iter)
                THEN Err([r EXCEPT !.state = "End"], "MissingStart")
                ELSE Ok([r EXCEPT !.state = "End"], None)
      [] key # None /\ subkey # None ->
            LET r == seek_by_key_subkey(c, key[1], subkey[1])
            IN  IF r.res.val # None THEN current(r)
                ELSE IF ~iter_valid(r.tbl, r.iter) THEN Ok([r EXCEPT !.state = "End"], None)
                ELSE LET it == iter_seek_for_prev(r.tbl,
                                   zero_extend_composite_key(r.dupsort,
                                       format_composite_key(key[1], subkey[1])))
                         el == iter_item(r.tbl, it)
                     IN  IF el = None
                         THEN Err([r EXCEPT !.state = "End",
                                            !.iter = iter_seek_to_first(r.tbl)], "MissingStart")
                         ELSE IF unformat_key(el[1]) # key[1]
                         THEN Err([r EXCEPT !.state = "End", !.iter = it], "MissingStart")
                         ELSE Ok([r EXCEPT !.state = "End", !.iter = it], None)

\* DupWalker::next until it yields nothing: the held pair or the cursor's next_dup()
RECURSIVE dup_walker_collect(_, _)
dup_walker_collect(c, start) ==
    LET r == IF start # None THEN Ok(c, start) ELSE next_dup(c)
    IN  IF r.res.val = None THEN Ok(r, <<>>)
        ELSE LET rest == dup_walker_collect(r, None)
             IN  Ok(rest, <<r.res.val>> \o rest.res.val)

(***************************************************************************)
(* The calls each operation makes, in program order, on the mutex of the    *)
(* transaction ("lock", "unlock": the guard is taken and dropped), on the   *)
(* native transaction ("tx."), on the raw iterator of the cursor ("iter.")  *)
(* and on a raw iterator local to the operation ("it.")                     *)
(***************************************************************************)
\* Tx::put_raw, were its guard to outlive the call
put_raw_calls_held == <<"lock", "tx.put_cf">>

\* Tx::put_raw: the guard is a temporary of the statement that calls put_cf
put_raw_calls == <<"lock", "tx.put_cf", "unlock">>

\* Tx::get on a dupsort table: the guard lives to the end of the function
get_calls == <<"lock", "tx.raw_iterator_cf", "it.seek", "it.item", "unlock">>

\* Tx::cursor_write: the raw iterator is created under the guard and handed
\* to the cursor, the guard is dropped on return
cursor_write_calls == <<"lock", "tx.raw_iterator_cf", "unlock">>

\* Cursor::upsert where a single put_raw is made
upsert_calls == <<"iter.seek_for_prev", "iter.item">> \o put_raw_calls \o <<"iter.seek">>

\* the operations and their calls
Calls ==
    [ \* Cursor::seek
      seek |-> <<"iter.seek", "iter.item">>,
      \* Cursor::next and Cursor::prev in state Iterating, away from the ends
      next |-> <<"iter.next", "iter.item">>,
      prev |-> <<"iter.prev", "iter.item">>,
      upsert |-> upsert_calls,
      \* Cursor::insert of a key that is stored, and of one that is not
      insert_present |-> get_calls \o <<"iter.seek", "iter.item">>,
      insert_absent |-> get_calls \o upsert_calls,
      \* Tx::put
      put |-> cursor_write_calls \o upsert_calls,
      \* Cursor::delete_current in state Iterating: the guard is taken after
      \* the key is read and lives to the end of the match arm
      delete_current |->
          <<"iter.key", "lock", "tx.delete_cf", "iter.seek", "iter.item", "unlock">>,
      \* Cursor::delete_current_duplicates in state Iterating, on a key with one entry
      delete_current_duplicates |->
          <<"iter.key", "iter.seek", "iter.key", "iter.next", "iter.key",
            "lock", "tx.delete_cf", "iter.seek", "iter.valid", "unlock">>,
      \* Tx::delete of a stored key of a plain table
      delete |->
          <<"lock", "tx.raw_iterator_cf", "it.seek", "it.item", "tx.delete_cf", "unlock">>,
      \* Tx::clear of a table with one entry
      clear |->
          <<"lock", "tx.raw_iterator_cf", "it.seek_to_first", "it.key", "tx.delete_cf",
            "it.seek_to_first", "it.key", "unlock">> ]

(***************************************************************************)
(* State                                                                   *)
(***************************************************************************)
VARIABLES
    tbl,       \* the table inside the transaction: physical key -> stored value
    iter,      \* Cursor.iter: position of the raw iterator
    state,     \* Cursor.state
    dup_mode,  \* Cursor.dup_mode
    dupsort,   \* T::TABLE.is_dupsort() of the table the cursor is opened on
    walker,    \* the Walker borrowing the cursor, if any
    deletes,   \* the number of calls so far that deleted entries
    ret        \* the last call: op, its result res, had (for a write of
               \* (key, value): the pair was stored before the call) and held
               \* (for upsert and put: the key was stored before the call;
               \* for commit and abort: writes were pending)
VARIABLES
    committed, \* the table as the database holds it outside the transaction
    mutex,     \* Tx.inner: 0 when unlocked, else the cursor whose call holds the guard
    running,   \* per cursor of the transaction: the call in progress and the
               \* number of its native calls made so far
    accessed   \* the last access to the native transaction or a raw iterator:
               \* who made it, the call, and whether the caller held the mutex

vars == <<tbl, iter, state, dup_mode, dupsort, walker, deletes, ret,
          committed, mutex, running, accessed>>

\* what the calls of one cursor, taken as single steps, read and write
cursorvars == <<tbl, iter, state, dup_mode, dupsort, walker, deletes, ret>>

\* the mutex of the transaction and the calls in progress on its cursors
lockvars == <<mutex, running, accessed>>

\* the cursors opened on one transaction
NumCursors == 2

Cursors == 1..NumCursors


\* start: the held pair; returned: the pair the last next() returned;
\* deleted: the physical key that a delete_current() following that return removed
\* back: the walker is a ReverseWalker
NoWalker ==
    [active |-> FALSE, back |-> FALSE, start |-> None, returned |-> None, deleted |-> None]

\* the cursor as a record
Cur == [tbl |-> tbl, iter |-> iter, state |-> state, dup_mode |-> dup_mode,
        dupsort |-> dupsort, res |-> [err |-> "", val |-> None]]

\* the logical pairs stored in table t
Pairs(t) == {decode_item(<<k, t[k]>>) : k \in DOMAIN t}

Init ==
    /\ tbl = <<>>
    /\ iter = None
    /\ state = "Start"
    /\ dupsort \in BOOLEAN
    /\ dup_mode \in {d \in BOOLEAN : d => dupsort}
    /\ walker = NoWalker
    /\ deletes = 0
    /\ ret = [op |-> "new", had |-> FALSE, held |-> FALSE, res |-> [err |-> "", val |-> None]]
    /\ committed = <<>>
    /\ mutex = 0
    /\ running = [c \in Cursors |-> [op |-> "idle", pc |-> 0]]
    /\ accessed = [by |-> 0, call |-> "", locked |-> TRUE]

\* the effect of a call that returned the cursor r
Return(op, arg, r) ==
    /\ tbl' = r.tbl
    /\ iter' = r.iter
    /\ state' = r.state
    /\ ret' = [op |-> op, had |-> Len(arg) = 2 /\ arg \in Pairs(tbl),
               held |-> op \in {"upsert", "put"}
                          /\ \E ek \in DOMAIN tbl : unformat_key(ek) = arg[1],
               res |-> r.res]
    /\ deletes' = IF DOMAIN r.tbl = DOMAIN tbl \/ Len(arg) = 2 THEN deletes ELSE deletes + 1
    /\ UNCHANGED <<dup_mode, dupsort, committed, lockvars>>

Tie(ek) == ek[Len(ek)]

\* a write of (k, v) stays within the bounds: there is room for one more entry,
\* or the pair is stored already
CanWrite(k, v) ==
    /\ Cardinality(DOMAIN tbl) < MaxEntries \/ <<k, v>> \in Pairs(tbl)
    /\ dupsort => \A ek \in DOMAIN tbl : Tie(ek) < TieCap

Free == ~walker.active

CanDelete == deletes < MaxDeletes

(***************************************************************************)
(* Actions: one per transaction, cursor or walker call                     *)
(***************************************************************************)
\* Tx::cursor_write / Tx::cursor_dup_write: a new cursor replaces the old one
CursorNew ==
    /\ Free
    /\ iter' = None
    /\ state' = "Start"
    /\ dup_mode' \in {d \in BOOLEAN : d => dupsort}
    /\ ret' = [op |-> "new", had |-> FALSE, held |-> FALSE, res |-> [err |-> "", val |-> None]]
    /\ UNCHANGED <<tbl, dupsort, walker, deletes, committed, lockvars>>

CursorFirst == Free /\ Return("first", <<>>, first(Cur)) /\ UNCHANGED walker

CursorLast == Free /\ Return("last", <<>>, last(Cur)) /\ UNCHANGED walker

CursorSeek == \E k \in Keys : Free /\ Return("seek", <<k>>, seek(Cur, k)) /\ UNCHANGED walker

CursorSeekExact ==
    \E k \in Keys : Free /\ Return("seek_exact", <<k>>, seek_exact(Cur, k)) /\ UNCHANGED walker

CursorNext == Free /\ Return("next", <<>>, next(Cur)) /\ UNCHANGED walker

CursorPrev == Free /\ Return("prev", <<>>, prev(Cur)) /\ UNCHANGED walker

CursorNextDup == Free /\ dupsort /\ Return("next_dup", <<>>, next_dup(Cur)) /\ UNCHANGED walker

CursorNextDupVal ==
    Free /\ dupsort /\ Return("next_dup_val", <<>>, next_dup_val(Cur)) /\ UNCHANGED walker

CursorNextNoDup ==
    Free /\ dupsort /\ Return("next_no_dup", <<>>, next_no_dup(Cur)) /\ UNCHANGED walker

CursorSeekByKeySubkey ==
    \E k \in Keys, sk \in SubKeys :
        Free /\ dupsort
             /\ Return("seek_by_key_subkey", <<k>>, seek_by_key_subkey(Cur, k, sk))
             /\ UNCHANGED walker

CursorUpsert(VS) ==
    \E k \in Keys, v \in VS :
        Free /\ CanWrite(k, v) /\ Return("upsert", <<k, v>>, upsert(Cur, k, v)) /\ UNCHANGED walker

CursorInsert(VS) ==
    \E k \in Keys, v \in VS :
        Free /\ CanWrite(k, v) /\ Return("insert", <<k, v>>, insert(Cur, k, v)) /\ UNCHANGED walker

CursorAppend(VS) ==
    \E k \in Keys, v \in VS :
        Free /\ CanWrite(k, v) /\ Return("append", <<k, v>>, append(Cur, k, v)) /\ UNCHANGED walker

CursorAppendDup(VS) ==
    \E k \in Keys, v \in VS :
        Free /\ dupsort /\ CanWrite(k, v)
             /\ Return("append_dup", <<k, v>>, append_dup(Cur, k, v)) /\ UNCHANGED walker

CursorDeleteCurrent ==
    Free /\ CanDelete /\ Return("delete_current", <<>>, delete_current(Cur)) /\ UNCHANGED walker

CursorDeleteCurrentDuplicates ==
    Free /\ dupsort /\ CanDelete
         /\ Return("delete_current_duplicates", <<>>, delete_current_duplicates(Cur))
         /\ UNCHANGED walker

Walk ==
    \E sk \in {None} \cup {<<k>> : k \in Keys} :
        LET r == walk(Cur, sk)
        IN  /\ Free
            /\ Return("walk", sk, Ok(r, None))
            /\ walker' = [NoWalker EXCEPT !.active = TRUE, !.start = r.res.val]

WalkerNext ==
    LET r == walker_next(Cur, walker.start)
    IN  /\ walker.active /\ ~walker.back
        /\ Return("walker_next", <<>>, r)
        /\ walker' = [walker EXCEPT !.start = None, !.returned = r.res.val, !.deleted = None]

WalkBack ==
    \E sk \in {None} \cup {<<k>> : k \in Keys} :
        LET r == walk_back(Cur, sk)
        IN  /\ Free
            /\ Return("walk_back", sk, Ok(r, None))
            /\ walker' = [NoWalker EXCEPT !.active = TRUE, !.back = TRUE, !.start = r.res.val]

ReverseWalkerNext ==
    LET r == reverse_walker_next(Cur, walker.start)
    IN  /\ walker.active /\ walker.back
        /\ Return("reverse_walker_next", <<>>, r)
        /\ walker' = [walker EXCEPT !.start = None, !.returned = r.res.val, !.deleted = None]

WalkerDeleteCurrent ==
    LET r == walker_delete_current(Cur)
    IN  /\ walker.active
        /\ CanDelete
        /\ Return("walker_delete_current", <<>>, r)
        /\ walker' = [walker EXCEPT !.start = None, !.returned = None,
                                    !.deleted = IF walker.returned # None /\ r.res.err = ""
                                                THEN iter ELSE None]

\* Tx::put: the table is written, the open cursor is left as it is
TxPut(VS) ==
    \E k \in Keys, v \in VS :
        LET r == tx_put(tbl, dupsort, dup_mode, k, v)
        IN  Free /\ CanWrite(k, v)
                 /\ Return("put", <<k, v>>, [r EXCEPT !.iter = iter, !.state = state])
                 /\ UNCHANGED walker

\* walk_range(range).collect(): the range walker is built, drained and dropped
WalkRangeCollect ==
    \E lo, hi \in {Unbounded} \cup {Included(k) : k \in Keys} \cup {Excluded(k) : k \in Keys} :
        LET w == walk_range(Cur, lo)
        IN  Free /\ Return("walk_range", <<>>, range_walker_collect(w, w.res.val, hi))
                 /\ UNCHANGED walker

\* walk_dup(key, subkey).collect(): the dup walker is built, drained and
\* dropped; a start error is the first item the walker yields
WalkDupCollect ==
    \E k \in {None} \cup {<<x>> : x \in Keys}, sk \in {None} \cup {<<x>> : x \in SubKeys} :
        LET w == walk_dup(Cur, k, sk)
            r == dup_walker_collect(w, w.res.val)
        IN  /\ Free /\ dupsort
            /\ k # None \/ sk = None
            /\ Return("walk_dup", <<>>, IF w.res.err = "" THEN r ELSE Err(r, w.res.err))
            /\ UNCHANGED walker

WalkerDrop ==
    /\ walker.active
    /\ walker' = NoWalker
    /\ ret' = [op |-> "walker_drop", had |-> FALSE, held |-> FALSE, res |-> [err |-> "", val |-> None]]
    /\ UNCHANGED <<tbl, iter, state, dup_mode, dupsort, deletes, committed, lockvars>>

\* Tx::delete of a pair; the open cursor is left as it is
TxDelete ==
    \E k \in Keys, v \in Values :
        /\ Free /\ CanDelete
        /\ Return("delete", <<>>, [Cur EXCEPT !.tbl = tx_delete(tbl, dupsort, k, <<v>>)])
        /\ UNCHANGED walker

\* Tx::commit, then DatabaseEnv::tx_mut: the next transaction and its cursor
TxCommit ==
    /\ Free
    /\ committed' = commit(committed, tbl)
    /\ tbl' = committed'
    /\ iter' = None /\ state' = "Start"
    /\ ret' = [op |-> "commit", had |-> FALSE, held |-> tbl # committed,
               res |-> [err |-> "", val |-> None]]
    /\ UNCHANGED <<dup_mode, dupsort, walker, deletes, lockvars>>

\* Tx::abort, then DatabaseEnv::tx_mut: the next transaction and its cursor
TxAbort ==
    /\ Free
    /\ committed' = abort(committed, tbl)
    /\ tbl' = committed'
    /\ iter' = None /\ state' = "Start"
    /\ ret' = [op |-> "abort", had |-> FALSE, held |-> tbl # committed,
               res |-> [err |-> "", val |-> None]]
    /\ UNCHANGED <<dup_mode, dupsort, walker, deletes, lockvars>>

\* format_key of a dupsort table, the tie-breaker put_raw is given (none,
\* zero, an incremented one or the sentinel), and unformat_key of the result
\* as decode_item applies it
FormatKey ==
    \E T \in DOMAIN SplitAt, k \in SeekKeys, v \in FewValues,
       tie \in {None, <<0>>, <<1>>, <<MaxTie>>} :
        LET raw == KeyFormat_format_key(T, k, v) \o tie
        IN  /\ ret' = [op |-> "format_key", had |-> tie # None, held |-> FALSE,
                       res |-> [err |-> "",
                                val |-> <<T, k, raw, KeyFormat_unformat_key(T, raw)>>]]
            /\ UNCHANGED <<tbl, iter, state, dup_mode, dupsort, walker, deletes,
                           committed, lockvars>>

\* the call that cursor c makes next, "" when its operation has made them all
NextCall(c) ==
    IF running[c].op = "idle" \/ running[c].pc >= Len(Calls[running[c].op])
    THEN "" ELSE Calls[running[c].op][running[c].pc + 1]

\* a thread calls an operation on cursor c of the transaction
OpBegin(c) ==
    /\ running[c].op = "idle"
    /\ \E op \in DOMAIN Calls : running' = [running EXCEPT ![c] = [op |-> op, pc |-> 0]]
    /\ UNCHANGED <<cursorvars, committed, mutex, accessed>>

\* self.tx.inner.lock(): blocks while the mutex is held
OpLock(c) ==
    /\ NextCall(c) = "lock"
    /\ mutex = 0
    /\ mutex' = c
    /\ running' = [running EXCEPT ![c].pc = @ + 1]
    /\ UNCHANGED <<cursorvars, committed, accessed>>

\* the guard goes out of scope
OpUnlock(c) ==
    /\ NextCall(c) = "unlock"
    /\ mutex' = IF mutex = c THEN 0 ELSE mutex
    /\ running' = [running EXCEPT ![c].pc = @ + 1]
    /\ UNCHANGED <<cursorvars, committed, accessed>>

\* a call on the native transaction or on a raw iterator
OpAccess(c) ==
    /\ NextCall(c) \notin {"", "lock", "unlock"}
    /\ accessed' = [by |-> c, call |-> NextCall(c), locked |-> mutex = c]
    /\ running' = [running EXCEPT ![c].pc = @ + 1]
    /\ UNCHANGED <<cursorvars, committed, mutex>>

\* the operation returns to its caller
OpReturn(c) ==
    /\ running[c].op # "idle"
    /\ NextCall(c) = ""
    /\ running' = [running EXCEPT ![c] = [op |-> "idle", pc |-> 0]]
    /\ UNCHANGED <<cursorvars, committed, mutex, accessed>>

(***************************************************************************)
(* Specifications                                                          *)
(***************************************************************************)
\* a dupsort table written by upsert alone, read through the cursor and a walker
NextUpsert ==
    \/ CursorUpsert(Values) \/ CursorNext \/ CursorPrev
    \/ Walk \/ WalkerNext \/ WalkerDrop

InitDupSort == Init /\ dupsort

SpecUpsert == InitDupSort /\ [][NextUpsert]_vars

\* a table written by upsert and read by a walker that deletes what it returns
NextWalk ==
    \/ CursorUpsert(FewValues)
    \/ Walk \/ WalkerNext \/ WalkerDeleteCurrent \/ WalkerDrop

SpecWalk == Init /\ [][NextWalk]_vars

\* a table written through the four write calls of the cursor
NextWrite ==
    \/ CursorUpsert(FewValues) \/ CursorInsert(FewValues)
    \/ CursorAppend(FewValues) \/ CursorAppendDup(FewValues)

SpecWrite == Init /\ [][NextWrite]_vars

\* a table written by upsert; cursors are opened, positioned and deleted from
NextDelete ==
    \/ CursorNew \/ CursorUpsert(FewValues)
    \/ CursorSeek \/ CursorNext
    \/ CursorDeleteCurrent \/ CursorDeleteCurrentDuplicates

SpecDelete == Init /\ [][NextDelete]_vars

\* a table written by upsert and read through the positioning calls of the cursor
NextNav ==
    \/ CursorUpsert(FewValues)
    \/ CursorFirst \/ CursorLast \/ CursorSeek \/ CursorSeekExact
    \/ CursorNext \/ CursorPrev \/ CursorNextDup

SpecNav == Init /\ [][NextNav]_vars

\* a dupsort table written by upsert and read through the calls of the
\* duplicate cursor
NextDupNav ==
    \/ CursorUpsert(FewValues)
    \/ CursorSeek \/ CursorNext
    \/ CursorNextDup \/ CursorNextDupVal \/ CursorNextNoDup
    \/ CursorSeekByKeySubkey

SpecDupNav == InitDupSort /\ [][NextDupNav]_vars

\* a table written by upsert and read through range walkers and dup walkers
NextWalkers ==
    \/ CursorUpsert(FewValues)
    \/ WalkRangeCollect \/ WalkDupCollect

SpecWalkers == Init /\ [][NextWalkers]_vars

\* a plain table written by upsert, insert, append and put and looked up by key
NextPlain ==
    \/ CursorUpsert(FewValues) \/ CursorInsert(FewValues)
    \/ CursorAppend(FewValues) \/ TxPut(FewValues)
    \/ CursorSeekExact

InitPlain == Init /\ ~dupsort

SpecPlain == InitPlain /\ [][NextPlain]_vars

\* two cursors of one transaction, used by two threads
NextLock ==
    \E c \in Cursors : OpBegin(c) \/ OpLock(c) \/ OpUnlock(c) \/ OpAccess(c) \/ OpReturn(c)

SpecLock == InitDupSort /\ [][NextLock]_vars

\* transactions on a plain table, one after the other: each writes through
\* put, upsert and delete_current and is then committed or aborted
NextTx ==
    \/ CursorUpsert({v \in FewValues : v.key = 1})
    \/ TxPut({v \in FewValues : v.key = 1})
    \/ CursorDeleteCurrent
    \/ TxCommit \/ TxAbort

SpecTx == InitPlain /\ [][NextTx]_vars

\* a dupsort table whose ties are written by upsert and append_dup and
\* removed by delete_current and Tx::delete
NextTies ==
    \/ CursorUpsert({v \in Values : v.key = 1})
    \/ CursorAppendDup({v \in Values : v.key = 1})
    \/ CursorPrev
    \/ CursorDeleteCurrent \/ TxDelete

SpecTies == InitDupSort /\ [][NextTies]_vars

\* a table written by upsert and read backwards by a reverse walker that
\* deletes what it returns
NextWalkBack ==
    \/ CursorUpsert(FewValues)
    \/ WalkBack \/ ReverseWalkerNext \/ WalkerDeleteCurrent \/ WalkerDrop

SpecWalkBack == Init /\ [][NextWalkBack]_vars

\* the composite keys of the five dupsort tables, formatted and unformatted
NextFormat == FormatKey

SpecFormat == InitDupSort /\ [][NextFormat]_vars

TypeOK ==
    /\ state \in {"Start", "End", "Iterating"}
    /\ iter \in DOMAIN tbl \cup {None}

(***************************************************************************)
(* Properties                                                              *)
(***************************************************************************)
\* the pairs a walker yields from the cursor c on, start being its held pair
RECURSIVE collect(_, _)
collect(c, start) ==
    LET r == walker_next(c, start)
    IN  IF r.res.val = None THEN <<>> ELSE <<r.res.val>> \o collect(r, None)

\* walk(None) on a new cursor over table t, collected
WalkAll(t, ds) == LET r == walk(NewCursor(t, ds, FALSE), None) IN collect(r, r.res.val)

\* order of logical pairs: primary key, then subkey, then value
PairLess(p, q) ==
    \/ p[1] < q[1]
    \/ p[1] = q[1] /\ p[2].key < q[2].key
    \/ p[1] = q[1] /\ p[2].key = q[2].key /\ p[2].value < q[2].value

SamePrefix(a, b) ==
    unformat_extended_composite_key(TRUE, a) = unformat_extended_composite_key(TRUE, b)

\* the stored pairs of table t from position it on, in key order
RECURSIVE scan(_, _)
scan(t, it) ==
    IF it = None THEN <<>> ELSE <<decode_item(iter_item(t, it))>> \o scan(t, iter_next(t, it))

\* C1: in a dupsort table written by upsert calls alone, walk(None) yields every
\* stored pair exactly once, in ascending order of primary key, subkey and value.
C1_SortedWalk ==
    LET w == WalkAll(tbl, dupsort)
    IN  /\ \A i \in 1..(Len(w) - 1) : PairLess(w[i], w[i + 1])
        /\ {w[i] : i \in 1..Len(w)} = Pairs(tbl)
        /\ Len(w) = Cardinality(DOMAIN tbl)

\* C1 witness: an upsert has just stored the smallest of three values of one
\* (primary key, subkey), so that two ties were shifted
C1_Witness ==
    /\ ret.op = "upsert" /\ ~ret.had
    /\ Cardinality(DOMAIN tbl) = 3
    /\ \A a, b \in DOMAIN tbl : SamePrefix(a, b)
    /\ iter \in DOMAIN tbl /\ Tie(iter) = 0
    /\ Len(WalkAll(tbl, dupsort)) = 3

\* C2: an upsert of a pair that is already stored leaves the physical entries
\* of the table exactly as they were.
C2_IdempotentUpsert ==
    \A p \in Pairs(tbl) : upsert(Cur, p[1], p[2]).tbl = tbl

\* C2 witness: an upsert of a stored pair that lies between two ties of its prefix
C2_Witness ==
    /\ ret.op = "upsert" /\ ret.had
    /\ iter \in DOMAIN tbl
    /\ \E a, b \in DOMAIN tbl :
          SamePrefix(a, iter) /\ SamePrefix(b, iter) /\ Tie(a) < Tie(iter) /\ Tie(iter) < Tie(b)

\* C3: once a forward walker has deleted the entry it just returned, continuing
\* the walker yields exactly the remaining entries greater than the deleted one,
\* in ascending order, none skipped and none repeated.
C3_DeleteDuringWalk ==
    walker.deleted # None =>
        collect(Cur, walker.start) = scan(tbl, iter_seek(tbl, walker.deleted))

\* the primary keys stored in table t
PrimaryKeys(t) == {unformat_key(ek) : ek \in DOMAIN t}

\* C4: insert of a present key (plain table) or of a present pair (dupsort
\* table) returns AlreadyExists and leaves the stored entries unchanged; insert
\* of an absent key stores the pair.
C4_InsertExclusive ==
    \A k \in Keys, v \in Values :
        LET r == insert(Cur, k, v)
            present == IF dupsort THEN <<k, v>> \in Pairs(tbl) ELSE k \in PrimaryKeys(tbl)
        IN  /\ present => r.res.err = "AlreadyExists" /\ r.tbl = tbl
            /\ k \notin PrimaryKeys(tbl) =>
                  /\ r.res.err = ""
                  /\ Pairs(r.tbl) = Pairs(tbl) \cup {<<k, v>>}
                  /\ Cardinality(DOMAIN r.tbl) = Cardinality(DOMAIN tbl) + 1

\* C4 witness: an insert of a stored pair into a dupsort table was refused
C4_Witness ==
    /\ ret.op = "insert" /\ ret.had /\ dupsort
    /\ ret.res.err = "AlreadyExists"
    /\ Cardinality(DOMAIN tbl) >= 2

\* C5: append fails with KeyMismatch exactly when the table is not empty and its
\* last primary key is greater than the key; a failed append leaves the stored
\* entries unchanged and the cursor on the last entry; any other append
\* succeeds and stores the pair.
C5_AppendOrder ==
    \A k \in Keys, v \in Values :
        LET r == append(Cur, k, v)
            lst == iter_seek_to_last(tbl)
            refused == tbl # <<>> /\ unformat_key(lst) > k
        IN  /\ r.res.err = "KeyMismatch" <=> refused
            /\ refused =>
                  /\ r.tbl = tbl
                  /\ r.iter = lst
                  /\ current(r).res.val = decode_item(iter_item(tbl, lst))
            /\ ~refused => r.res.err = "" /\ <<k, v>> \in Pairs(r.tbl)

\* C5 witness: an append below the last key was refused and the cursor is on
\* the last of several entries
C5_Witness ==
    /\ ret.op = "append" /\ ret.res.err = "KeyMismatch"
    /\ Cardinality(DOMAIN tbl) >= 2
    /\ state = "Iterating" /\ iter = iter_seek_to_last(tbl)

\* C6: append_dup returns KeyMismatch and leaves the stored entries unchanged
\* whenever an entry stored under the key has a greater subkey, or the same
\* subkey and a greater value; otherwise it succeeds and the pair is stored.
C6_AppendDupOrder ==
    dupsort =>
        \A k \in Keys, v \in Values :
            LET r == append_dup(Cur, k, v)
                refused == \E p \in Pairs(tbl) :
                              /\ p[1] = k
                              /\ \/ p[2].key > v.key
                                 \/ p[2].key = v.key /\ p[2].value > v.value
            IN  IF refused
                THEN r.res.err = "KeyMismatch" /\ r.tbl = tbl
                ELSE r.res.err = "" /\ <<k, v>> \in Pairs(r.tbl)

\* the cursor is on an entry
Positioned == state = "Iterating" /\ iter \in DOMAIN tbl

\* C7: delete_current and delete_current_duplicates on a cursor in state Start
\* return an error, leave the stored entries unchanged, and current() is still
\* empty afterwards.
C7_DeleteAtStart ==
    state = "Start" =>
        /\ LET r == delete_current(Cur)
           IN  r.res.err # "" /\ r.tbl = tbl /\ current(r).res.val = None
        /\ dupsort =>
              LET r == delete_current_duplicates(Cur)
              IN  r.res.err # "" /\ r.tbl = tbl /\ current(r).res.val = None

\* C7 witness: delete_current was refused on a new cursor over a table that
\* holds entries
C7_Witness ==
    /\ ret.op = "delete_current" /\ ret.res.err # ""
    /\ state = "Start"
    /\ Cardinality(DOMAIN tbl) >= 2

\* C8: delete_current on a positioned cursor removes exactly the entry at the
\* current position, and current() afterwards returns the next remaining entry
\* in key order, or empty only when the deleted entry was the last of the table.
C8_DeleteCurrent ==
    Positioned =>
        LET r == delete_current(Cur)
        IN  /\ r.res.err = ""
            /\ r.tbl = delete_cf(tbl, iter)
            /\ current(r).res.val = decode_item(iter_item(r.tbl, iter_next(tbl, iter)))

\* C9: delete_current_duplicates on a positioned dupsort cursor removes every
\* entry of the current primary key and no other entry; current() afterwards
\* returns the first entry of the next greater primary key, or empty.
C9_DeleteCurrentDuplicates ==
    (dupsort /\ Positioned) =>
        LET r == delete_current_duplicates(Cur)
            K == unformat_key(iter)
            rest == {ek \in DOMAIN tbl : unformat_key(ek) # K}
            greater == {ek \in DOMAIN tbl : unformat_key(ek) > K}
        IN  /\ r.res.err = ""
            /\ r.tbl = [ek \in rest |-> tbl[ek]]
            /\ current(r).res.val =
                  IF greater = {} THEN None ELSE decode_item(iter_item(tbl, MinKey(greater)))

\* C9 witness: delete_current_duplicates, called on the second of two entries
\* of a primary key, has left the cursor on the next primary key
C9_Witness ==
    /\ ret.op = "delete_current_duplicates" /\ ret.res.err = ""
    /\ deletes = 1
    /\ Positioned
    /\ Cardinality(DOMAIN tbl) = 1
    /\ \A ek \in DOMAIN tbl : Tie(ek) = 0

\* the pairs that repeated next_dup calls return from cursor c on, up to the
\* first empty answer
RECURSIVE collect_dup(_)
collect_dup(c) ==
    LET r == next_dup(c)
    IN  IF r.res.val = None THEN <<>> ELSE <<r.res.val>> \o collect_dup(r)

\* C10: next_dup never returns an entry whose primary key differs from that of
\* the entry the cursor was on; started on the first entry of primary key K,
\* repeated next_dup calls return every remaining entry of K in ascending
\* order and then empty.
C10_NextDupScope ==
    (dupsort /\ Positioned) =>
        LET K == unformat_key(iter)
            r == next_dup(Cur)
            w == <<decode_item(iter_item(tbl, iter))>> \o collect_dup(Cur)
        IN  /\ r.res.val # None => r.res.val[1] = K
            /\ iter = iter_seek(tbl, Encode(K)) =>
                  /\ {w[i] : i \in 1..Len(w)} = {p \in Pairs(tbl) : p[1] = K}
                  /\ Len(w) = Cardinality({ek \in DOMAIN tbl : unformat_key(ek) = K})
                  /\ \A i \in 1..(Len(w) - 1) : PairLess(w[i], w[i + 1])

\* C10 witness: next_dup has answered empty on the second of two entries of a
\* primary key that is followed by an entry of a greater primary key
C10_Witness ==
    /\ ret.op = "next_dup" /\ ret.res.val = None
    /\ dupsort /\ Positioned
    /\ Cardinality({ek \in DOMAIN tbl : unformat_key(ek) = unformat_key(iter)}) = 2
    /\ iter # iter_seek(tbl, Encode(unformat_key(iter)))
    /\ \E ek \in DOMAIN tbl : unformat_key(ek) > unformat_key(iter)

\* the greatest physical key of primary key K in table t
LastOf(t, K) == MaxKey({ek \in DOMAIN t : unformat_key(ek) = K})

\* C11: when next_dup (or next_dup_val) on an entry returns empty, the cursor is
\* left on that entry, which is the last of its primary key: current() returns
\* what it returned before the call, and further next_dup calls return empty
\* with the position unchanged.
C11_NextDupStays ==
    (dupsort /\ Positioned) =>
        LET r == next_dup(Cur)
            rv == next_dup_val(Cur)
            r2 == next_dup(r)
            r3 == next_dup(r2)
        IN  /\ rv.res.val = None <=> r.res.val = None
            /\ rv.iter = r.iter /\ rv.state = r.state
            /\ r.res.val = None =>
                  /\ iter = LastOf(tbl, unformat_key(iter))
                  /\ r.iter = iter /\ r.state = "Iterating"
                  /\ current(r).res.val = current(Cur).res.val
                  /\ r2.res.val = None /\ r2.iter = iter /\ r2.state = "Iterating"
                  /\ r3.res.val = None /\ r3.iter = iter /\ r3.state = "Iterating"

\* C11 witness: next_dup_val has answered empty on an entry that is followed
\* by an entry of another primary key
C11_Witness ==
    /\ ret.op = "next_dup_val" /\ ret.res.val = None
    /\ Positioned
    /\ iter_next(tbl, iter) # None
    /\ unformat_key(iter_next(tbl, iter)) # unformat_key(iter)

\* C12: next_no_dup on an entry of primary key K returns the first stored entry
\* whose primary key is greater than K, or empty when there is none; it never
\* returns an entry whose primary key is less than or equal to K.
C12_NextNoDup ==
    (dupsort /\ Positioned) =>
        LET K == unformat_key(iter)
            r == next_no_dup(Cur)
            greater == {ek \in DOMAIN tbl : unformat_key(ek) > K}
        IN  r.res.val =
                IF greater = {} THEN None ELSE decode_item(iter_item(tbl, MinKey(greater)))

\* the first entry of table t among the physical keys S, or None
FirstIn(t, S) == IF S = {} THEN None ELSE decode_item(iter_item(t, MinKey(S)))

\* the last entry of table t among the physical keys S, or None
LastIn(t, S) == IF S = {} THEN None ELSE decode_item(iter_item(t, MaxKey(S)))

\* C13: seek(key) positions the cursor on, and returns, the smallest stored
\* entry whose primary key is greater than or equal to key (the first duplicate
\* of that key in a dupsort table); when there is none it returns empty and
\* current() returns empty.
C13_Seek ==
    \A k \in SeekKeys :
        LET r == seek(Cur, k)
            S == {ek \in DOMAIN tbl : unformat_key(ek) >= k}
        IN  /\ r.res.val = FirstIn(tbl, S)
            /\ current(r).res.val = FirstIn(tbl, S)
            /\ S # {} => r.iter = MinKey(S)
            /\ r.tbl = tbl

\* C13 witness: a seek in a dupsort table has landed on the first of two
\* duplicates of a key that is preceded by an entry of a smaller key
C13_Witness ==
    /\ ret.op = "seek" /\ ret.res.val # None
    /\ dupsort /\ Positioned
    /\ iter_prev(tbl, iter) # None
    /\ unformat_key(iter_prev(tbl, iter)) < unformat_key(iter)
    /\ iter_next(tbl, iter) # None
    /\ unformat_key(iter_next(tbl, iter)) = unformat_key(iter)

\* C14: seek_exact(key) returns the first entry of primary key key when one is
\* stored and empty otherwise; in the latter case the cursor is positioned as
\* by seek(key): current() returns the smallest entry of a greater primary key,
\* and a following prev() returns the greatest entry of a smaller primary key.
C14_SeekExact ==
    \A k \in SeekKeys :
        LET r == seek_exact(Cur, k)
            s == seek(Cur, k)
            same == {ek \in DOMAIN tbl : unformat_key(ek) = k}
            greater == {ek \in DOMAIN tbl : unformat_key(ek) > k}
            smaller == {ek \in DOMAIN tbl : unformat_key(ek) < k}
        IN  /\ r.res.val = FirstIn(tbl, same)
            /\ r.iter = s.iter /\ r.state = s.state /\ r.tbl = tbl
            /\ same = {} =>
                  /\ current(r).res.val = FirstIn(tbl, greater)
                  /\ prev(r).res.val = LastIn(tbl, smaller)

\* C14 witness: seek_exact has answered empty and left the cursor on an entry
\* of a greater key that is preceded by an entry of a smaller key
C14_Witness ==
    /\ ret.op = "seek_exact" /\ ret.res.val = None
    /\ Positioned
    /\ iter_prev(tbl, iter) # None

Bounds == {Unbounded} \cup {Included(k) : k \in Keys} \cup {Excluded(k) : k \in Keys}

\* primary key k lies inside the range from bound lo to bound hi
InRange(lo, hi, k) ==
    /\ CASE lo.kind = "Included" -> lo.key <= k
         [] lo.kind = "Excluded" -> lo.key < k
         [] lo.kind = "Unbounded" -> TRUE
    /\ within_end(hi, k)

\* all stored pairs of table t in key order
AllPairs(t) == scan(t, iter_seek_to_first(t))

\* C16: walk_range over a range of primary keys yields exactly the stored
\* entries whose primary key lies inside the range, whatever the kinds of its
\* bounds (inclusive, exclusive, unbounded), in ascending order; an empty or
\* inverted range yields nothing.
C16_WalkRange ==
    \A lo, hi \in Bounds :
        LET w == walk_range(Cur, lo)
            inside(p) == InRange(lo, hi, p[1])
        IN  range_walker_collect(w, w.res.val, hi).res.val = SelectSeq(AllPairs(tbl), inside)

\* the stored pairs of primary key k whose subkey is at least sk (None: all), in order
DupsOf(t, k, sk) ==
    LET wanted(p) == p[1] = k /\ (sk = None \/ p[2].key >= sk[1])
    IN  SelectSeq(AllPairs(t), wanted)

\* C17: on a dupsort table, walk_dup(Some(key), subkey) for a key with stored
\* entries yields exactly the entries of key, only those whose subkey is at
\* least the given one when a subkey is given, in ascending order, and none of
\* another primary key; walk_dup(None, None) yields exactly the duplicates of
\* the first primary key of the table.
C17_WalkDup ==
    dupsort =>
        /\ \A k \in PrimaryKeys(tbl), sk \in {None} \cup {<<x>> : x \in SeekSubKeys} :
               LET w == walk_dup(Cur, <<k>>, sk)
                   r == dup_walker_collect(w, w.res.val)
               IN  w.res.err = "" /\ r.res.val = DupsOf(tbl, k, sk)
        /\ LET w == walk_dup(Cur, None, None)
               r == dup_walker_collect(w, w.res.val)
           IN  /\ w.res.err = ""
               /\ r.res.val = IF tbl = <<>> THEN <<>>
                              ELSE DupsOf(tbl, unformat_key(iter_seek_to_first(tbl)), None)

\* C17 witness: a dup walk has yielded some but not all entries of its key,
\* and has stopped before an entry of a greater primary key
C17_Witness ==
    /\ ret.op = "walk_dup" /\ ret.res.err = "" /\ ret.res.val # <<>>
    /\ Len(ret.res.val) < Len(DupsOf(tbl, ret.res.val[1][1], None))
    /\ \E k \in PrimaryKeys(tbl) : k > ret.res.val[1][1]

\* C18: in every reachable cursor state, next() on a cursor in state Start
\* returns the result of first() and leaves the iterator where first() leaves
\* it, and prev() on a cursor in state End returns the result of last() and
\* leaves the iterator where last() leaves it.
C18_StartEnd ==
    /\ state = "Start" =>
           /\ next(Cur).res = first(Cur).res
           /\ next(Cur).iter = first(Cur).iter
    /\ state = "End" =>
           /\ prev(Cur).res = last(Cur).res
           /\ prev(Cur).iter = last(Cur).iter

\* the decoded entry at raw key ek of the table, None when ek is None
EntryAt(ek) == IF ek = None THEN None ELSE decode_item(iter_item(tbl, ek))

\* C19: next() on the last entry of the table returns empty and leaves the
\* cursor on that entry: current() still returns it, further next() calls
\* return empty again, and a following prev() returns the entry before the
\* last. Symmetrically prev() on the first entry returns empty, current()
\* still returns the first entry, and a following next() returns the second.
C19_Boundary ==
    /\ Positioned /\ iter = MaxKey(DOMAIN tbl) =>
           LET r == next(Cur)
           IN  /\ r.res.val = None
               /\ current(r).res.val = EntryAt(iter)
               /\ next(r).res.val = None
               /\ current(next(r)).res.val = EntryAt(iter)
               /\ prev(r).res.val = EntryAt(iter_prev(tbl, iter))
               /\ prev(next(r)).res.val = EntryAt(iter_prev(tbl, iter))
    /\ Positioned /\ iter = MinKey(DOMAIN tbl) =>
           LET r == prev(Cur)
           IN  /\ r.res.val = None
               /\ current(r).res.val = EntryAt(iter)
               /\ prev(r).res.val = None
               /\ current(prev(r)).res.val = EntryAt(iter)
               /\ next(r).res.val = EntryAt(iter_next(tbl, iter))
               /\ next(prev(r)).res.val = EntryAt(iter_next(tbl, iter))

\* C19 witness: next() has answered empty on the last of several entries and
\* the cursor is still on it
C19_Witness ==
    /\ ret.op = "next" /\ ret.res.val = None
    /\ Positioned /\ iter = MaxKey(DOMAIN tbl)
    /\ iter_prev(tbl, iter) # None

\* the raw keys of table t that belong to primary key k
EntriesOf(t, k) == {ek \in DOMAIN t : unformat_key(ek) = k}

\* C20: in a plain table every primary key owns at most one value after any
\* sequence of upsert, insert, append and put; upsert(key, value), and put
\* likewise, replaces the value of a stored key and leaves the other keys as
\* they are, and a following seek_exact(key) returns the value written.
C20_PlainSingleValue ==
    ~dupsort =>
        /\ \A k \in Keys : Cardinality(EntriesOf(tbl, k)) <= 1
        /\ \A k \in Keys, v \in Values :
               LET r == upsert(Cur, k, v)
                   p == tx_put(tbl, dupsort, dup_mode, k, v)
               IN  /\ r.res.err = ""
                   /\ Cardinality(EntriesOf(r.tbl, k)) = 1
                   /\ seek_exact(r, k).res.val = <<k, v>>
                   /\ \A ek \in DOMAIN tbl \ EntriesOf(tbl, k) :
                          ek \in DOMAIN r.tbl /\ r.tbl[ek] = tbl[ek]
                   /\ DOMAIN r.tbl \subseteq DOMAIN tbl \cup EntriesOf(r.tbl, k)
                   /\ p.tbl = r.tbl /\ p.res.err = ""
                   /\ seek_exact([p EXCEPT !.iter = iter, !.state = state], k).res.val = <<k, v>>

\* C20 witness: an upsert on a plain table has replaced the value of a stored
\* key by another one, next to a second key
C20_Witness ==
    /\ ~dupsort /\ ret.op = "upsert" /\ ret.held /\ ~ret.had
    /\ Cardinality(DOMAIN tbl) >= 2
    /\ Positioned

\* the values stored under primary key k and subkey sk in table t
ValuesUnder(t, k, sk) == {p[2] : p \in {q \in Pairs(t) : q[1] = k /\ q[2].key = sk}}

C22_InsertDupKey ==
    dupsort =>
        \A k \in Keys, v \in Values :
            LET r == insert(Cur, k, v)
            IN  IF EntriesOf(tbl, k) # {}
                THEN r.res.err = "AlreadyExists" /\ r.tbl = tbl
                ELSE r.res.err = "" /\ Pairs(r.tbl) = Pairs(tbl) \cup {<<k, v>>}

\* C22 witness: an insert of a pair that was not stored, under a key that
\* holds entries of one subkey only, was refused on a dupsort table
C22_Witness ==
    /\ dupsort /\ ret.op = "insert" /\ ~ret.had
    /\ ret.res.err = "AlreadyExists"
    /\ \E k \in PrimaryKeys(tbl) :
           /\ \A ek \in DOMAIN tbl : unformat_key(ek) = k
           /\ \A a, b \in DOMAIN tbl : SamePrefix(a, b)

\* C23: every access that a cursor makes to the native transaction or to a raw
\* iterator derived from it (seek, next, prev, item and key reads, put,
\* delete) is made while the caller holds the mutex of the transaction.
C23_AccessUnderMutex == accessed.by # 0 => accessed.locked

\* C24: an operation that took the mutex has released it when it returns, and
\* no operation asks for the mutex while it holds it, nested calls included.
C24_LockDiscipline ==
    \A c \in Cursors :
        /\ NextCall(c) = "" => mutex # c
        /\ NextCall(c) = "lock" => mutex # c

\* C24 witness: put has made all its calls, through cursor_write, upsert and
\* put_raw, taking the mutex twice, while the other cursor holds it
C24_Witness ==
    \E c, d \in Cursors :
        /\ running[c].op = "put" /\ running[c].pc = Len(Calls.put)
        /\ mutex = d /\ d # c

C26_ErrorsReturned ==
    Positioned => delete_current_at(Cur, TRUE).res.err # ""

\* C27: in every reachable state of a dupsort table, written by upsert and
\* append_dup and deleted from by delete_current and Tx::delete, of two stored
\* entries with equal (primary key, subkey) the one with the smaller value has
\* the smaller tie-breaker.
C27_TieOrder ==
    dupsort =>
        \A a, b \in DOMAIN tbl :
            SamePrefix(a, b) /\ BytesLess(tbl[a], tbl[b]) => Tie(a) < Tie(b)

\* C27 witness: after a delete, an upsert has shifted the ties of a prefix
\* with a gap, which leaves a value stored at two tie-breakers
C27_Witness ==
    /\ dupsort /\ ret.op = "upsert" /\ ~ret.had /\ deletes = 1
    /\ \E a, b \in DOMAIN tbl : a # b /\ SamePrefix(a, b) /\ tbl[a] = tbl[b]

\* C28: upsert(key, value) on a dupsort table writes only under the prefix
\* (key, subkey of value): every entry of another prefix keeps its physical
\* key and value and none is added there; of the ties of the prefix, those
\* whose value is less than value keep their tie-breaker, and when value is
\* new those with a greater value are found one tie-breaker up.
C28_UpsertFrame ==
    dupsort =>
        \A k \in Keys, v \in Values :
            LET r == upsert(Cur, k, v)
                ck == format_composite_key(k, v.key)
                under(ek) == unformat_extended_composite_key(TRUE, ek) = ck
            IN  /\ \A ek \in DOMAIN tbl :
                       ~under(ek) \/ BytesLess(tbl[ek], Compress(v)) =>
                           ek \in DOMAIN r.tbl /\ r.tbl[ek] = tbl[ek]
                /\ \A ek \in DOMAIN r.tbl : ~under(ek) => ek \in DOMAIN tbl
                /\ <<k, v>> \notin Pairs(tbl) =>
                       \A ek \in DOMAIN tbl :
                           under(ek) /\ BytesLess(Compress(v), tbl[ek]) =>
                               /\ up_extend_composite_key(ek) \in DOMAIN r.tbl
                               /\ r.tbl[up_extend_composite_key(ek)] = tbl[ek]

\* C28 witness: an upsert has stored a value in front of a tie of its prefix,
\* which it shifted, next to an entry of another subkey of the same key
C28_Witness ==
    /\ dupsort /\ ret.op = "upsert" /\ ~ret.had /\ ret.held
    /\ Positioned /\ Tie(iter) = 0
    /\ \E a, b \in DOMAIN tbl :
           /\ SamePrefix(a, iter) /\ Tie(a) = 1
           /\ ~SamePrefix(b, iter) /\ unformat_key(b) = unformat_key(iter)

\* the pairs a reverse walker yields from the cursor c on, start being its held pair
RECURSIVE collect_back(_, _)
collect_back(c, start) ==
    LET r == reverse_walker_next(c, start)
    IN  IF r.res.val = None THEN <<>> ELSE <<r.res.val>> \o collect_back(r, None)

\* the stored pairs of table t whose raw key is at most ek, in descending order
Descending(t, ek) ==
    LET n == Cardinality({k \in DOMAIN t : BytesLeq(k, ek)})
    IN  [i \in 1..n |-> AllPairs(t)[n + 1 - i]]

\* C29: walk_back(Some(key)) starts at the first entry of the smallest primary
\* key greater than or equal to key, or at the last entry of the table when
\* there is no such key, and yields it and every entry before it in descending
\* order down to the first entry of the table; walk_back(None) starts at the
\* last entry.
C29_WalkBack ==
    /\ \A k \in SeekKeys :
           LET w == walk_back(Cur, <<k>>)
               from == {ek \in DOMAIN tbl : unformat_key(ek) >= k}
               at == IF from = {} THEN MaxKey(DOMAIN tbl) ELSE MinKey(from)
           IN  collect_back(w, w.res.val) = IF tbl = <<>> THEN <<>> ELSE Descending(tbl, at)
    /\ LET w == walk_back(Cur, None)
       IN  collect_back(w, w.res.val) =
               IF tbl = <<>> THEN <<>> ELSE Descending(tbl, MaxKey(DOMAIN tbl))

\* C29 witness: a reverse walker started at the greatest key holds its first
\* entry, which has entries before and behind it
C29_Witness ==
    /\ ret.op = "walk_back" /\ walker.active /\ walker.start # None
    /\ Positioned
    /\ iter_prev(tbl, iter) # None /\ iter_next(tbl, iter) # None
    /\ unformat_key(iter) = (MaxByte + 1) ^ KeyWidth - 1

C31_WalkDupMissing ==
    dupsort =>
        \A k \in SeekKeys, sk \in {None} \cup {<<x>> : x \in SeekSubKeys} :
            LET w == walk_dup(Cur, <<k>>, sk)
                items == dup_walker_collect(w, w.res.val).res.val
                greater == \E ek \in DOMAIN tbl : unformat_key(ek) > k
            IN  /\ EntriesOf(tbl, k) = {} =>
                       /\ w.res.err = IF greater THEN "MissingStart" ELSE ""
                       /\ w.res.val = None /\ items = <<>>
                /\ EntriesOf(tbl, k) # {} /\ DupsOf(tbl, k, sk) = <<>> =>
                       /\ w.res.err = "" /\ items = <<>>
                       /\ current(w).res.val = None

\* C31 witness: a dup walk for a key that is not stored, with entries of a
\* smaller and of a greater key around it, has yielded MissingStart
C31_Witness ==
    /\ ret.op = "walk_dup" /\ ret.res.err = "MissingStart"
    /\ state = "End" /\ iter \in DOMAIN tbl
    /\ iter_prev(tbl, iter) # None
    /\ unformat_key(iter_prev(tbl, iter)) < unformat_key(iter) - 1


\* C32: a Transaction.put made while a cursor of the same transaction is open
\* on a dupsort table does not move that cursor: current() returns the same
\* entry after the put as before it, and nothing when the cursor was never
\* positioned.
C32_PutKeepsCursor ==
    dupsort =>
        \A k \in Keys, v \in Values :
            LET r == tx_put(tbl, dupsort, dup_mode, k, v)
                after == [Cur EXCEPT !.tbl = r.tbl]
            IN  r.res.err = "" => current(after).res.val = current(Cur).res.val


C34_NoStaleCopy ==
    \A ek1, ek2 \in DOMAIN tbl :
        ek1 # ek2 => decode_item(<<ek1, tbl[ek1]>>) # decode_item(<<ek2, tbl[ek2]>>)


\* C35: after a successful upsert, insert, append or append_dup of
\* (key, value), current() returns (key, value), from every state of the
\* cursor and also when the pair was already stored.
C35_CurrentAfterWrite ==
    \A k \in Keys, v \in FewValues :
        \A r \in {upsert(Cur, k, v), insert(Cur, k, v), append(Cur, k, v)}
                     \cup (IF dupsort THEN {append_dup(Cur, k, v)} ELSE {}) :
            r.res.err = "" => current(r).res.val = <<k, v>>


\* C36: when next_no_dup() on a stored entry returns empty because no entry
\* with a greater primary key is stored, the cursor stays on the entry it was
\* on: current() returns that entry, and a further next_no_dup() returns
\* empty again and leaves the position unchanged.
C36_NextNoDupStays ==
    (dupsort /\ Positioned) =>
        LET r == next_no_dup(Cur)
            again == next_no_dup(r)
        IN  (r.res.val = None /\ ~\E ek \in DOMAIN tbl : unformat_key(ek) > unformat_key(iter))
                => /\ r.iter = iter /\ r.state = "Iterating"
                   /\ current(r).res.val = decode_item(iter_item(tbl, iter))
                   /\ again.res.val = None /\ again.iter = iter /\ again.state = "Iterating"

\* next_no_dup returned empty on an entry that is followed by a duplicate
C36_Witness ==
    /\ ret.op = "next_no_dup" /\ ret.res.val = None /\ ret.res.err = ""
    /\ state = "Iterating" /\ iter \in DOMAIN tbl
    /\ iter_next(tbl, iter) # None
    /\ unformat_key(iter_next(tbl, iter)) = unformat_key(iter)


\* C37: on a dupsort table whose last primary key is key, with a value that
\* is not stored and sorts before a stored duplicate of key, append(key,
\* value) succeeds and adds the pair, and the table stays in sorted order,
\* whereas append_dup(key, value) fails with KeyMismatch.
C37_AppendVsAppendDup ==
    dupsort =>
        \A k \in Keys, v \in FewValues :
            LET a == append(Cur, k, v)
                d == append_dup(Cur, k, v)
                lastkey == \A ek \in DOMAIN tbl : unformat_key(ek) <= k
                before == \E p \in Pairs(tbl) :
                              p[1] = k /\ BytesLess(Compress(v), Compress(p[2]))
            IN  (lastkey /\ before /\ <<k, v>> \notin Pairs(tbl) /\ CanWrite(k, v)) =>
                    /\ a.res.err = ""
                    /\ Pairs(a.tbl) = Pairs(tbl) \cup {<<k, v>>}
                    /\ Cardinality(DOMAIN a.tbl) = Cardinality(DOMAIN tbl) + 1
                    /\ \A e1, e2 \in DOMAIN a.tbl :
                           BytesLess(e1, e2) /\ unformat_key(e1) = unformat_key(e2)
                               => ~BytesLess(a.tbl[e2], a.tbl[e1])
                    /\ d.res.err = "KeyMismatch" /\ d.tbl = tbl


\* C38: in every state a single cursor reaches, on an empty or a non-empty
\* table, a cursor in state Iterating has its iterator on a stored entry and
\* current() returns a pair; current() is empty in states Start and End only.
C38_IteratingOnEntry ==
    /\ state = "Iterating" => iter \in DOMAIN tbl /\ current(Cur).res.val # None
    /\ current(Cur).res.val = None => state \in {"Start", "End"}


\* C39: for each of the five dupsort tables and every key k and value v,
\* unformat_key of format_key(k, v), alone or followed by a tie-breaker,
\* returns k: neither the subkey nor the tie-breaker leaks into the key.
C39_UnformatFormat ==
    \A T \in DOMAIN SplitAt, k \in SeekKeys, v \in Values,
       tie \in {None} \cup {<<t>> : t \in {0, 1, MaxTie}} :
        /\ KeyFormat_unformat_key(T, KeyFormat_format_key(T, k, v) \o tie) = k
        /\ ret.op = "format_key" => ret.res.val[4] = ret.res.val[2]

\* a key of StorageChangeSets was formatted with its second subkey, carries
\* the sentinel tie-breaker and was unformatted to a key of two nonzero bytes
C39_Witness ==
    /\ ret.op = "format_key" /\ ret.had
    /\ ret.res.val[1] = "StorageChangeSets"
    /\ Len(ret.res.val[3]) = 30
    /\ ret.res.val[3][29] = NumSubKeys /\ ret.res.val[3][30] = MaxTie
    /\ ret.res.val[4] = (MaxByte + 1) ^ KeyWidth - 1

====
